---- MODULE Spec2Model ----
(***************************************************************************)
(* A model of src/src/main.cpp: a ray caster for a scene of spheres.       *)
(*                                                                         *)
(* Numbers.  The program computes in `float'.  The model computes in fixed *)
(* point: a scalar is an integer count of a unit that is a power of 1/Q.   *)
(* Positions, radii and direction components are counted in 1/Q; a product *)
(* of two such scalars is counted in 1/Q^2, and so on, so that every sum   *)
(* and product of the source is exact in the model.  The operations whose  *)
(* result is not representable (sqrt, the division of normalize, storing a *)
(* product back into a 1/Q scalar) round to the nearest representable      *)
(* value, as the correctly rounded float operations do on their own grid.  *)
(* Colour channels are counted in 1/CS.                                    *)
(***************************************************************************)
EXTENDS Integers, Sequences, FiniteSets

\* The scalar unit: 1/Q.  26 = 2 * 13 carries exact unit vectors
\* (10,24,0)/26, (6,8,24)/26 and 26/sqrt(3) = 15.011.
Q == 26
Q2 == Q * Q
Q4 == Q2 * Q2
\* The colour unit: 1/CS.
CS == 1000

(***************************************************************************)
(* Bounds of the model.                                                    *)
(***************************************************************************)
\* render's width and height (1280 and 720 in the source).
Width == 3
Height == 2
\* The longest scene ray_cast is called on with an arbitrary ray.
MaxSpheres == 2

(***************************************************************************)
(* Rounding arithmetic.                                                    *)
(***************************************************************************)
Max(a, b) == IF a < b THEN b ELSE a

Min(a, b) == IF b < a THEN b ELSE a

Clamp(v, lo, hi) == Min(Max(v, lo), hi)

\* a / b rounded to the nearest integer, b > 0.
RoundDiv(a, b) ==
    IF a >= 0 THEN (2 * a + b) \div (2 * b) ELSE -((2 * (-a) + b) \div (2 * b))

\* The element of a set of one element.  {e : v \in {a}} is the set of e
\* for v the value of a: it computes a once, however often e uses v.
The(S) == CHOOSE e \in S : TRUE

RECURSIVE FloorSqrtIn(_, _, _)
\* The largest s in lo..hi with s * s <= n, given lo * lo <= n.
FloorSqrtIn(n, lo, hi) ==
    IF lo >= hi THEN lo
    ELSE The({ IF mid * mid <= n THEN FloorSqrtIn(n, mid, hi)
               ELSE FloorSqrtIn(n, lo, mid - 1) :
               mid \in {(lo + hi + 1) \div 2} })

FloorSqrt(n) == The({FloorSqrtIn(m, 0, Min(m, 46340)) : m \in {n}})

\* std::sqrt: the integer nearest to the square root of n >= 0.
Sqrt(n) ==
    The({ IF m - s * s > s THEN s + 1 ELSE s : m \in {n}, s \in {FloorSqrt(n)} })

(***************************************************************************)
(* glm::vec3.                                                              *)
(***************************************************************************)
Vec3(a, b, c) == <<a, b, c>>

Zero3 == Vec3(0, 0, 0)

Add(a, b) == Vec3(a[1] + b[1], a[2] + b[2], a[3] + b[3])

Sub(a, b) == Vec3(a[1] - b[1], a[2] - b[2], a[3] - b[3])

Neg(a) == Vec3(-a[1], -a[2], -a[3])

Dot(a, b) == a[1] * b[1] + a[2] * b[2] + a[3] * b[3]

\* glm::normalize of a vector counted in 1/Q: v / sqrt(dot(v, v)), each
\* component rounded to 1/Q.  A zero vector is outside the caller's contract.
Normalize(v) ==
    The({ Vec3(RoundDiv(w[1] * Q, len), RoundDiv(w[2] * Q, len), RoundDiv(w[3] * Q, len)) :
          w \in {v}, len \in {Sqrt(Dot(v, v))} })

\* glm::reflect(I, N) = I - N * dot(N, I) * 2, counted in 1/Q^3.
Reflect(I, N) ==
    LET k == 2 * Dot(N, I)
    IN Vec3(Q2 * I[1] - k * N[1], Q2 * I[2] - k * N[2], Q2 * I[3] - k * N[3])

(***************************************************************************)
(* Sphere, Ray, Intersection.                                              *)
(***************************************************************************)
Sphere(r, c) == [radius |-> r, center |-> c]

Ray(o, d) == [origin |-> o, direction |-> d]

Intersection(i, d) == [sphere_index |-> i, distance |-> d]

\* -1U, the index no sphere has.
NoIndex == -1
\* std::numeric_limits<float>::max().
FloatMax == 2147483647

\* std::optional: the empty sequence, or a sequence of one value.
None == <<>>

Some(v) == <<v>>

(***************************************************************************)
(* trace: lines 38-66.                                                     *)
(***************************************************************************)
\* Line 39: the running minimum before the loop.
NearestInit == Intersection(NoIndex, FloatMax)

\* Candidate without the test d2 > r2 of lines 50-52.
CandidateNoD2(r, sphere) ==
    LET oc == Sub(sphere.center, r.origin)
        dot == Dot(r.direction, oc)
        d2 == Q2 * Dot(oc, oc) - dot * dot
        r2 == Q2 * sphere.radius * sphere.radius
    IN IF dot < 0 THEN [passes |-> FALSE, distance |-> 0]
       ELSE [passes |-> TRUE, distance |-> dot - Sqrt(r2 - d2)]

\* Candidate with the larger root, dot + sqrt(r2 - d2), at line 53.
CandidateFarRoot(r, sphere) ==
    LET oc == Sub(sphere.center, r.origin)
        dot == Dot(r.direction, oc)
        d2 == Q2 * Dot(oc, oc) - dot * dot
        r2 == Q2 * sphere.radius * sphere.radius
    IN IF dot < 0 THEN [passes |-> FALSE, distance |-> 0]
       ELSE IF d2 > r2 THEN [passes |-> FALSE, distance |-> 0]
       ELSE [passes |-> TRUE, distance |-> dot + Sqrt(r2 - d2)]

\* Candidate without the test dot < 0 of lines 45-47.
CandidateNoProj(r, sphere) ==
    LET oc == Sub(sphere.center, r.origin)
        dot == Dot(r.direction, oc)
        d2 == Q2 * Dot(oc, oc) - dot * dot
        r2 == Q2 * sphere.radius * sphere.radius
    IN IF d2 > r2 THEN [passes |-> FALSE, distance |-> 0]
       ELSE [passes |-> TRUE, distance |-> dot - Sqrt(r2 - d2)]

\* Lines 43-53 for one sphere: whether the sphere passes both rejection
\* tests and, when it does, its candidate distance, counted in 1/Q^2.
\* dot is counted in 1/Q^2, d2 and r2 in 1/Q^4.
Candidate(r, sphere) ==
    LET oc == Sub(sphere.center, r.origin)
        dot == Dot(r.direction, oc)
        d2 == Q2 * Dot(oc, oc) - dot * dot
        r2 == Q2 * sphere.radius * sphere.radius
    IN IF dot < 0 THEN [passes |-> FALSE, distance |-> 0]
       ELSE IF d2 > r2 THEN [passes |-> FALSE, distance |-> 0]
       ELSE [passes |-> TRUE, distance |-> dot - Sqrt(r2 - d2)]

\* TraceBody with <= for < at line 55.
TraceBodyLe(r, scene, idx, near) ==
    LET c == Candidate(r, scene[idx + 1])
    IN IF c.passes /\ c.distance <= near.distance
       THEN Intersection(idx, c.distance)
       ELSE near

\* Lines 42-57: one iteration of the loop, for the sphere of index idx
\* (0-based, as in the source).
TraceBody(r, scene, idx, near) ==
    LET c == Candidate(r, scene[idx + 1])
    IN IF c.passes /\ c.distance < near.distance
       THEN Intersection(idx, c.distance)
       ELSE near

\* Lines 60-65: the result of trace from the running minimum.
TraceResult(near) ==
    IF near.sphere_index # NoIndex THEN Some(near) ELSE None

RECURSIVE TraceFrom(_, _, _, _)
\* The loop of lines 41-58 from index idx on, then lines 60-65.
TraceFrom(r, scene, idx, near) ==
    IF idx < Len(scene)
    THEN TraceFrom(r, scene, idx + 1, TraceBody(r, scene, idx, near))
    ELSE TraceResult(near)

\* trace(ray, spheres) as a function of its arguments.
Trace(r, scene) == TraceFrom(r, scene, 0, NearestInit)

(***************************************************************************)
(* ray_cast: lines 68-98.                                                  *)
(***************************************************************************)
\* Line 75: origin + direction * distance, stored in 1/Q.
HitPoint(r, distance) ==
    Add(r.origin, Vec3(RoundDiv(r.direction[1] * distance, Q2),
                       RoundDiv(r.direction[2] * distance, Q2),
                       RoundDiv(r.direction[3] * distance, Q2)))

\* Line 76.
LightDir == Normalize(Vec3(Q, -Q, -Q))

\* Line 77.
Normal(point, sphere) == Normalize(Sub(point, sphere.center))

\* cos and sin, in 1/10000, of the angles (k/5 - 1) * 3.1415, k = 1..10:
\* texture.x * 10 >= k exactly when atan2(normal.z, normal.x) is at least
\* the k-th angle (line 79).
BandCos == <<-8090, -3090, 3091, 8090, 10000, 8090, 3091, -3090, -8090, -10000>>

BandSin == <<-5878, -9511, -9510, -5878, 0, 5878, 9510, 9511, 5878, 1>>

\* cos, in 1/10000, of j * 3.1415 / 10, j = 1..10: texture.y * 10 >= j
\* exactly when normal.y is at most the j-th cosine (line 80).
BandCosY == <<9511, 8090, 5878, 3091, 0, -3090, -5877, -8090, -9510, -10000>>

\* atan2(z, x) >= (k/5 - 1) * 3.1415, for (z, x) # (0, 0).
AngleAtLeast(z, x, k) ==
    LET cross == BandCos[k] * z - BandSin[k] * x
    IN IF k < 5 THEN z >= 0 \/ cross >= 0 ELSE z >= 0 /\ cross >= 0

\* static_cast<int>(texture.x * 10), lines 79 and 81; atan2(0, 0) = 0.
BandX(normal) ==
    IF normal[3] = 0 /\ normal[1] = 0 THEN 5
    ELSE Cardinality({k \in 1..10 : AngleAtLeast(normal[3], normal[1], k)})

\* static_cast<int>(texture.y * 10), lines 80 and 81.
BandY(normal) ==
    Cardinality({j \in 1..10 : normal[2] * 10000 <= BandCosY[j] * Q})

\* Line 81.
Pattern(normal) == (BandX(normal) + BandY(normal)) % 2 = 0

\* Line 82, in 1/CS.
Ambient == CS \div 10

\* c * (pattern ? 0.5F : 1.0F), lines 87 and 94.
TimesPattern(c, pattern) == IF pattern THEN RoundDiv(c, 2) ELSE c

\* ShadowRay along light_dir, not against it.
ShadowRayAlongLight(point) == Ray(point, LightDir)

\* Line 84.
ShadowRay(point) == Ray(point, Neg(LightDir))

\* Line 87: the colour of a point in shadow.
ShadowColor(pattern) ==
    LET c == TimesPattern(Ambient, pattern)
    IN Vec3(c, c, c)

RECURSIVE SquareTimes(_, _)
\* v, counted in 1/CS, squared n times.
SquareTimes(v, n) ==
    IF n = 0 THEN v
    ELSE The({SquareTimes(w, n - 1) : w \in {RoundDiv(v * v, CS)}})

\* Line 90, in 1/CS.
Diffuse(normal) ==
    RoundDiv(Max(0, Dot(normal, Neg(LightDir))) * 8 * CS, 10 * Q2)

\* Lines 91-92, in 1/CS: powf(max(0, dot(reflection, -light_dir)), 32) * 0.5.
Specular(r, normal) ==
    LET reflection == Reflect(r.direction, normal)
        base == RoundDiv(Max(0, Dot(reflection, Neg(LightDir))) * CS, Q4)
    IN RoundDiv(SquareTimes(base, 5), 2)

\* Line 94: the colour of a lit point.
LitColor(r, normal, pattern) ==
    LET c == TimesPattern(Ambient + Diffuse(normal), pattern) + Specular(r, normal)
    IN Vec3(c, c, c)

\* Lines 72-81: what ray_cast computes at a hit before the shadow test.
Surface(r, scene, hit) ==
    The({ [point |-> point, normal |-> normal, pattern |-> Pattern(normal)] :
          point \in {HitPoint(r, hit.distance)},
          normal \in {Normal(HitPoint(r, hit.distance), scene[hit.sphere_index + 1])} })

\* Shaded without the test of line 86.
ShadedNoShadow(r, surf, shadow) == LitColor(r, surf.normal, surf.pattern)

\* Lines 86-94: the colour from the result of the shadow trace.
Shaded(r, surf, shadow) ==
    IF shadow # None THEN ShadowColor(surf.pattern)
    ELSE LitColor(r, surf.normal, surf.pattern)

\* ray_cast(ray, spheres) as a function of its arguments.
RayCast(r, scene) ==
    LET hit == Trace(r, scene)
    IN IF hit # None
       THEN LET surf == Surface(r, scene, hit[1])
            IN Shaded(r, surf, Trace(ShadowRay(surf.point), scene))
       ELSE Zero3

(***************************************************************************)
(* render and save_image: lines 100-125 and 19-31.                         *)
(***************************************************************************)
\* Line 103, in 1/Q.
AspectRatio == RoundDiv(Width * Q, Height)

\* Line 114: -1 / tan(3.1415 / 6) = -1.73214, in 1/Q.
DirectionZ == -45

\* Lines 111-115: the ray of pixel (px, py).
PixelRay(px, py) ==
    Ray(Zero3,
        Normalize(Vec3(RoundDiv((2 * px + 1 - Width) * AspectRatio, Width),
                       RoundDiv((Height - 2 * py - 1) * Q, Height),
                       DirectionZ)))

\* Lines 25-27: static_cast<int>(255.99 * clamp(channel, 0, 1)).
Byte(channel) == (25599 * Clamp(channel, 0, CS)) \div (100 * CS)

RECURSIVE PixelBytes(_, _, _)
\* Lines 23-30: the bytes of entries k .. n - 1 of the buffer.
PixelBytes(img, k, n) ==
    IF k >= n THEN <<>>
    ELSE <<Byte(img[k][1]), Byte(img[k][2]), Byte(img[k][3])>>
             \o PixelBytes(img, k + 1, n)

\* Lines 20-30: the file save_image writes.
SaveImage(img, w, h) ==
    [header |-> <<"P6", w, h, 255>>, bytes |-> PixelBytes(img, 0, w * h)]

\* Line 106: width * height entries, each (0, 0, 0).
NewImage == [k \in 0 .. Width * Height - 1 |-> Zero3]

(***************************************************************************)
(* Inputs.                                                                 *)
(***************************************************************************)
Units(a, b, c) == Vec3(a * Q, b * Q, c * Q)

\* Lines 128-131: the scene of main, radius 1 at (0, 1, -4) and radius 2 at
\* (2, -1, -8.5).
MainScene ==
    <<Sphere(Q, Units(0, 1, -4)), Sphere(2 * Q, Vec3(2 * Q, -Q, -221))>>

\* The spheres of the scenes ray_cast is called on.
CastSpheres ==
    { Sphere(Q, Units(0, 0, -4)),
      Sphere(2 * Q, Units(0, 0, -5)),
      Sphere(Q, Units(-2, 2, -2)),
      Sphere(2 * Q, Units(0, 0, -1)),
      Sphere(Q, Vec3(50, 0, -120)),
      Sphere(Q, Units(2, 0, -4)),
      MainScene[1],
      MainScene[2] }

CastScenes == UNION {[1 .. n -> CastSpheres] : n \in 0 .. MaxSpheres}

CastOrigins ==
    { Units(0, 0, 0), Units(3, 0, -4), Units(0, 0, -9), Units(0, -3, -4),
      Units(1, 0, 0) }

\* Unit directions: the squares of the components add up to Q * Q.
CastDirections ==
    { Vec3(0, 0, -Q), Vec3(-Q, 0, 0), Vec3(0, 0, Q), Vec3(0, Q, 0),
      Vec3(10, 0, -24), Vec3(0, 10, -24), Vec3(-6, 8, -24), Vec3(24, 0, 10),
      Vec3(-24, 8, -6), Vec3(8, 24, -6) }

\* The scenes render is called on.
RenderScenes ==
    { <<>>, MainScene, <<Sphere(2 * Q, Units(0, 0, -5))>>,
      <<Sphere(2 * Q, Units(1, 0, -5)), Sphere(Q, Units(-1, 1, -3))>> }

(***************************************************************************)
(* The state.                                                              *)
(***************************************************************************)
VARIABLES
    spheres,              \* the scene
    pc,                   \* where the program is
    x, y,                 \* render's loop counters
    image,                \* render's frame buffer
    writes,               \* how often each entry of the buffer was written
    outside,              \* how many writes fell outside the buffer
    file,                 \* what save_image wrote, None before
    ray,                  \* ray_cast's ray
    ntrace,               \* the calls of trace ray_cast has made for ray
    intersection,         \* ray_cast's intersection
    surface,              \* ray_cast's point, normal and pattern
    shadow_intersection,  \* ray_cast's shadow_intersection
    color,                \* what ray_cast returns
    phase,                \* which call of trace runs: "primary" or "shadow"
    traced,               \* trace's ray
    i,                    \* trace's loop counter
    nearest,              \* trace's running minimum
    visited               \* the indices trace's loop has visited in this call

renderVars == <<x, y, image, writes, outside, file>>

castVars == <<ray, ntrace, intersection, surface, shadow_intersection, color, phase>>

traceVars == <<traced, i, nearest, visited>>

vars == <<spheres, pc, renderVars, castVars, traceVars>>

NoSurface == [point |-> Zero3, normal |-> Zero3, pattern |-> FALSE]

\* The locals of ray_cast and trace before their first assignment.
LocalsInit ==
    /\ ntrace = 0
    /\ intersection = None
    /\ surface = NoSurface
    /\ shadow_intersection = None
    /\ color = Zero3
    /\ phase = "primary"
    /\ traced = Ray(Zero3, Zero3)
    /\ i = 0
    /\ nearest = NearestInit
    /\ visited = <<>>

RenderInit ==
    /\ x = 0
    /\ y = 0
    /\ image = NewImage
    /\ writes = [k \in 0 .. Width * Height - 1 |-> 0]
    /\ outside = 0
    /\ file = None

\* render(spheres) is entered.
Init ==
    /\ spheres \in RenderScenes
    /\ pc = "loop"
    /\ ray = Ray(Zero3, Zero3)
    /\ RenderInit
    /\ LocalsInit

\* ray_cast(ray, spheres) is entered.
InitCast ==
    /\ spheres \in CastScenes
    /\ pc = "cast"
    /\ ray \in {Ray(o, d) : o \in CastOrigins, d \in CastDirections}
    /\ RenderInit
    /\ LocalsInit

(***************************************************************************)
(* The steps of trace.                                                     *)
(***************************************************************************)
\* EnterTrace with a running minimum that outlives the call.
EnterTraceKeepNearest(r) ==
    /\ traced' = r
    /\ i' = 0
    /\ nearest' = nearest
    /\ visited' = <<>>
    /\ ntrace' = ntrace + 1
    /\ pc' = "trace"

\* Lines 38-39: trace is entered with ray r.
EnterTrace(r) ==
    /\ traced' = r
    /\ i' = 0
    /\ nearest' = NearestInit
    /\ visited' = <<>>
    /\ ntrace' = ntrace + 1
    /\ pc' = "trace"

\* Lines 41-58: one iteration of the loop.
TraceIter ==
    /\ pc = "trace"
    /\ i < Len(spheres)
    /\ nearest' = TraceBody(traced, spheres, i, nearest)
    /\ visited' = Append(visited, i)
    /\ i' = i + 1
    /\ UNCHANGED <<spheres, pc, renderVars, castVars, traced>>

\* Lines 60-65, and the assignment of the result at line 69 or 85.
TraceReturn ==
    /\ pc = "trace"
    /\ i >= Len(spheres)
    /\ IF phase = "primary"
       THEN /\ intersection' = TraceResult(nearest)
            /\ pc' = "hit"
            /\ UNCHANGED shadow_intersection
       ELSE /\ shadow_intersection' = TraceResult(nearest)
            /\ pc' = "light"
            /\ UNCHANGED intersection
    /\ UNCHANGED <<spheres, renderVars, ray, ntrace, surface, color, phase, traceVars>>

(***************************************************************************)
(* The steps of ray_cast.                                                  *)
(***************************************************************************)
\* Line 69: the call of trace for the ray.
CastTrace ==
    /\ pc = "cast"
    /\ phase' = "primary"
    /\ EnterTrace(ray)
    /\ UNCHANGED <<spheres, renderVars, ray, intersection, surface,
                   shadow_intersection, color>>

\* Lines 71 and 97: no intersection.
CastMiss ==
    /\ pc = "hit"
    /\ intersection = None
    /\ color' = Zero3
    /\ pc' = "ret"
    /\ UNCHANGED <<spheres, renderVars, ray, ntrace, intersection, surface,
                   shadow_intersection, phase, traceVars>>

\* Lines 71-85: an intersection, up to the call of trace for the shadow ray.
CastHit ==
    /\ pc = "hit"
    /\ intersection # None
    /\ surface' = Surface(ray, spheres, intersection[1])
    /\ phase' = "shadow"
    /\ EnterTrace(ShadowRay(surface'.point))
    /\ UNCHANGED <<spheres, renderVars, ray, intersection, shadow_intersection, color>>

\* Lines 86-94.
CastLight ==
    /\ pc = "light"
    /\ color' = Shaded(ray, surface, shadow_intersection)
    /\ pc' = "ret"
    /\ UNCHANGED <<spheres, renderVars, ray, ntrace, intersection, surface,
                   shadow_intersection, phase, traceVars>>

CastStep == CastTrace \/ TraceIter \/ TraceReturn \/ CastMiss \/ CastHit \/ CastLight

(***************************************************************************)
(* The steps of render.                                                    *)
(***************************************************************************)
\* Lines 109-117: the loops' tests, the ray of pixel (x, y) and the call of
\* ray_cast.
RenderPixel ==
    /\ pc = "loop"
    /\ y < Height
    /\ ray' = PixelRay(x, y)
    /\ ntrace' = 0
    /\ pc' = "cast"
    /\ UNCHANGED <<spheres, renderVars, intersection, surface,
                   shadow_intersection, color, phase, traceVars>>

\* PixelIndex with the height for the width.
PixelIndexByHeight(px, py) == py * Height + px

\* The index render stores pixel (px, py) at, line 117.
PixelIndex(px, py) == py * Width + px

\* image[k] = c: a write outside the buffer is counted, not performed.
StoreAt(k, c) ==
    IF k \in DOMAIN image
    THEN /\ image' = [image EXCEPT ![k] = c]
         /\ writes' = [writes EXCEPT ![k] = @ + 1]
         /\ UNCHANGED outside
    ELSE /\ outside' = outside + 1
         /\ UNCHANGED <<image, writes>>

\* Line 117, then the increments of lines 110 and 109.
RenderStore ==
    /\ pc = "ret"
    /\ StoreAt(PixelIndex(x, y), color)
    /\ IF x + 1 < Width
       THEN x' = x + 1 /\ y' = y
       ELSE x' = 0 /\ y' = y + 1
    /\ pc' = "loop"
    /\ UNCHANGED <<spheres, file, castVars, traceVars>>

\* RenderSave one row early.
RenderSaveEarly ==
    /\ pc = "loop"
    /\ y >= Height - 1
    /\ file' = Some(SaveImage(image, Width, Height))
    /\ pc' = "done"
    /\ UNCHANGED <<spheres, x, y, image, writes, outside, castVars, traceVars>>

\* Line 124, after the loops.
RenderSave ==
    /\ pc = "loop"
    /\ y >= Height
    /\ file' = Some(SaveImage(image, Width, Height))
    /\ pc' = "done"
    /\ UNCHANGED <<spheres, x, y, image, writes, outside, castVars, traceVars>>

Next == RenderPixel \/ CastStep \/ RenderStore \/ RenderSave

\* render(spheres), from its entry to its return.
Spec == Init /\ [][Next]_vars

\* ray_cast(ray, spheres) on any ray, from its entry to its return.
SpecCast == InitCast /\ [][CastStep]_vars

\* render(spheres) under the scheduling of a sequential program: it takes a
\* step whenever it can.
SpecFair == Spec /\ WF_vars(Next)

(***************************************************************************)
(* render with the pixels of lines 109-119 evaluated in any order, one     *)
(* pixel at a time: the body of the loops is the source's, the order of    *)
(* the iterations is left open.                                            *)
(***************************************************************************)
\* Lines 111-117 for any pixel that has not been stored yet.
AnyPixel ==
    /\ pc = "loop"
    /\ \E k \in DOMAIN writes :
           /\ writes[k] = 0
           /\ x' = k % Width
           /\ y' = k \div Width
           /\ ray' = PixelRay(k % Width, k \div Width)
    /\ ntrace' = 0
    /\ pc' = "cast"
    /\ UNCHANGED <<spheres, image, writes, outside, file, intersection, surface,
                   shadow_intersection, color, phase, traceVars>>

\* Line 117.
AnyStore ==
    /\ pc = "ret"
    /\ StoreAt(PixelIndex(x, y), color)
    /\ x' = 0
    /\ y' = 0
    /\ pc' = "loop"
    /\ UNCHANGED <<spheres, file, castVars, traceVars>>

\* Line 124, after every pixel has been stored.
AnySave ==
    /\ pc = "loop"
    /\ \A k \in DOMAIN writes : writes[k] > 0
    /\ file' = Some(SaveImage(image, Width, Height))
    /\ pc' = "done"
    /\ UNCHANGED <<spheres, x, y, image, writes, outside, castVars, traceVars>>

NextAnyOrder == AnyPixel \/ CastStep \/ AnyStore \/ AnySave

SpecAnyOrder == Init /\ [][NextAnyOrder]_vars

(***************************************************************************)
(* What the properties speak of.                                           *)
(***************************************************************************)
\* A call of trace has returned and its result is the last thing assigned.
Returned == pc \in {"hit", "light"}

\* The result of that call; its ray is traced.
LastResult == IF pc = "hit" THEN intersection ELSE shadow_intersection

\* The 0-based indices of a scene.
Indices(scene) == 0 .. Len(scene) - 1

\* The spheres of the scene that pass both rejection tests for ray r.
Passing(r, scene) == {k \in Indices(scene) : Candidate(r, scene[k + 1]).passes}

CandidateDistance(r, scene, k) == Candidate(r, scene[k + 1]).distance

\* The sphere and the line o + t * d as a quadratic in t:
\* (d.d) t^2 - 2 (d.oc) t + (oc.oc - radius^2) = 0.  LineDot is d.oc and
\* Disc a quarter of the discriminant, both for d counted in 1/Q.
LineDot(r, sphere) == Dot(r.direction, Sub(sphere.center, r.origin))

OriginPower(r, sphere) ==
    LET oc == Sub(sphere.center, r.origin)
    IN Dot(oc, oc) - sphere.radius * sphere.radius

Disc(r, sphere) ==
    LineDot(r, sphere) * LineDot(r, sphere)
        - Dot(r.direction, r.direction) * OriginPower(r, sphere)

\* The half-line t >= 0 meets the sphere: the quadratic has a root t >= 0.
Meets(r, sphere) ==
    /\ Disc(r, sphere) >= 0
    /\ LineDot(r, sphere) >= 0 \/ OriginPower(r, sphere) <= 0

UnitDirection(r) == Dot(r.direction, r.direction) = Q2

StrictlyOutside(r, scene) ==
    \A k \in Indices(scene) : OriginPower(r, scene[k + 1]) > 0

\* For a unit direction: d, counted in 1/Q^2, is at most half a unit above
\* the smaller root LineDot - sqrt(Disc) of the quadratic.
AtMostNearRoot(r, sphere, d) ==
    LET m == 2 * (LineDot(r, sphere) - d) + 1
    IN m >= 0 /\ 4 * Disc(r, sphere) <= m * m

\* For a unit direction: d is at most half a unit below the smaller root.
AtLeastNearRoot(r, sphere, d) ==
    LET m == 2 * (LineDot(r, sphere) - d) - 1
    IN m <= 0 \/ m * m <= 4 * Disc(r, sphere)

\* For a unit direction: d is the smaller root, rounded.
IsNearRoot(r, sphere, d) ==
    AtMostNearRoot(r, sphere, d) /\ AtLeastNearRoot(r, sphere, d)

(***************************************************************************)
(* C1.                                                                     *)
(***************************************************************************)
\* C1: when trace returns an intersection, its distance is the least of
\* the candidate distances of the spheres that pass both rejection tests,
\* and its sphere_index is the lowest index of a sphere with that distance.
C1_NearestLowestIndex ==
    (Returned /\ LastResult # None) =>
        LET res == LastResult[1]
            passing == Passing(traced, spheres)
        IN /\ res.sphere_index \in passing
           /\ res.distance = CandidateDistance(traced, spheres, res.sphere_index)
           /\ \A k \in passing :
                  /\ res.distance <= CandidateDistance(traced, spheres, k)
                  /\ CandidateDistance(traced, spheres, k) = res.distance
                         => res.sphere_index <= k

\* Two different spheres at the same least distance, and a third case in
\* the same scene order: the earlier one is returned.
C1_Witness ==
    /\ Returned
    /\ LastResult # None
    /\ \E k \in Passing(traced, spheres) :
           /\ k > LastResult[1].sphere_index
           /\ spheres[k + 1] # spheres[LastResult[1].sphere_index + 1]
           /\ CandidateDistance(traced, spheres, k) = LastResult[1].distance

(***************************************************************************)
(* C2.                                                                     *)
(***************************************************************************)
\* C2: when the half-line of the ray meets no sphere of the scene, trace
\* returns the empty optional, and ray_cast returns the colour (0, 0, 0).
C2_MissIsBackground ==
    /\ (Returned /\ \A k \in Indices(spheres) : ~Meets(traced, spheres[k + 1]))
           => LastResult = None
    /\ (pc = "ret" /\ \A k \in Indices(spheres) : ~Meets(ray, spheres[k + 1]))
           => intersection = None /\ color = Zero3

\* ray_cast has returned for a ray that misses a scene of two spheres.
C2_Witness ==
    /\ pc = "ret"
    /\ Len(spheres) = 2
    /\ \A k \in Indices(spheres) : ~Meets(ray, spheres[k + 1])
    /\ color = Zero3

(***************************************************************************)
(* C3.                                                                     *)
(***************************************************************************)
\* C3: when the ray hits a sphere and trace reports a hit for the shadow
\* ray, ray_cast returns ambient * 0.5 with the pattern on and ambient
\* without, ambient = (0.1, 0.1, 0.1): nothing of diffuse or specular.
C3_ShadowIsAmbientOnly ==
    (pc = "ret" /\ intersection # None /\ shadow_intersection # None) =>
        color = IF Pattern(surface.normal)
                THEN Vec3(CS \div 20, CS \div 20, CS \div 20)
                ELSE Vec3(CS \div 10, CS \div 10, CS \div 10)

\* A point that faces the light and lies in the shadow of another sphere.
C3_Witness ==
    /\ pc = "ret"
    /\ intersection # None
    /\ shadow_intersection # None
    /\ shadow_intersection[1].sphere_index # intersection[1].sphere_index
    /\ Diffuse(surface.normal) > 0

(***************************************************************************)
(* C4.                                                                     *)
(***************************************************************************)
\* C4: every intersection trace returns, for the ray of ray_cast and for
\* its shadow ray, has a distance greater than 0.
C4_DistancePositive ==
    (Returned /\ LastResult # None) => LastResult[1].distance > 0

(***************************************************************************)
(* C5.                                                                     *)
(***************************************************************************)
\* The unit direction of r points from its origin straight at the centre.
PointsAtCenter(r, sphere) ==
    LET oc == Sub(sphere.center, r.origin)
        d == r.direction
    IN /\ UnitDirection(r)
       /\ Dot(d, oc) > 0
       /\ d[2] * oc[3] = d[3] * oc[2]
       /\ d[3] * oc[1] = d[1] * oc[3]
       /\ d[1] * oc[2] = d[2] * oc[1]

\* d, counted in 1/Q^2, is the distance from the origin of r to the centre
\* of the sphere less the radius.
IsCenterDistanceLessRadius(r, sphere, d) ==
    LET oc == Sub(sphere.center, r.origin)
    IN /\ d + Q * sphere.radius >= 0
       /\ (d + Q * sphere.radius) * (d + Q * sphere.radius) = Q2 * Dot(oc, oc)

\* C5: for a ray from outside every sphere whose unit direction points at
\* the centre of a sphere, trace returns an intersection; the distance it
\* computes for that sphere is the distance to the centre less the radius,
\* and that is what it returns when the scene is that sphere alone.
C5_HeadOnDistance ==
    \A k \in Indices(spheres) :
        ( /\ pc = "hit"
          /\ StrictlyOutside(ray, spheres)
          /\ PointsAtCenter(ray, spheres[k + 1]) ) =>
            /\ intersection # None
            /\ intersection[1].sphere_index = k =>
                   IsCenterDistanceLessRadius(ray, spheres[k + 1],
                                              intersection[1].distance)
            /\ Len(spheres) = 1 => intersection[1].sphere_index = k

\* A ray that is not along an axis and points at the centre of the only
\* sphere.
C5_Witness ==
    /\ pc = "hit"
    /\ Len(spheres) = 1
    /\ StrictlyOutside(ray, spheres)
    /\ PointsAtCenter(ray, spheres[1])
    /\ ray.direction[1] # 0
    /\ ray.direction[3] # 0
    /\ intersection # None

(***************************************************************************)
(* C9.                                                                     *)
(***************************************************************************)
\* C9: for a ray with a unit direction from strictly outside every sphere,
\* trace returns an intersection exactly when the half-line t >= 0 meets a
\* sphere, and the distance returned is the least t at which it does (the
\* smaller root, rounded to the unit of the distance).
C9_ProjectionTestIsSound ==
    (pc = "hit" /\ UnitDirection(ray) /\ StrictlyOutside(ray, spheres)) =>
        /\ intersection # None
               <=> \E k \in Indices(spheres) : Meets(ray, spheres[k + 1])
        /\ intersection # None =>
               LET res == intersection[1]
               IN /\ Meets(ray, spheres[res.sphere_index + 1])
                  /\ IsNearRoot(ray, spheres[res.sphere_index + 1], res.distance)
                  /\ \A k \in Indices(spheres) :
                         Meets(ray, spheres[k + 1]) =>
                             AtMostNearRoot(ray, spheres[k + 1], res.distance)

\* Two spheres met by the half-line, the nearer one at a distance whose
\* square root is rounded, and a third sphere behind the origin.
C9_Witness ==
    /\ pc = "hit"
    /\ UnitDirection(ray)
    /\ StrictlyOutside(ray, spheres)
    /\ intersection # None
    /\ \E k \in Indices(spheres) :
           /\ k # intersection[1].sphere_index
           /\ Meets(ray, spheres[k + 1])
    /\ LET s == spheres[intersection[1].sphere_index + 1]
       IN FloorSqrt(Disc(ray, s)) * FloorSqrt(Disc(ray, s)) # Disc(ray, s)

(***************************************************************************)
(* C10.                                                                    *)
(***************************************************************************)
\* The sphere ray_cast's ray hit.
HitIndex == intersection[1].sphere_index

HitSphere == spheres[HitIndex + 1]

\* The shadow trace has returned, and the hit point lies on the sphere.
ShadowTracedFromSurface ==
    /\ pc = "light"
    /\ traced.origin = surface.point
    /\ OriginPower(traced, HitSphere) = 0

\* The sign of dot(n, -light_dir) for the outward normal n at the point.
Facing == Dot(Sub(surface.point, HitSphere.center), Neg(LightDir))

Rendered(scene) ==
    [k \in 0 .. Width * Height - 1 |->
        RayCast(PixelRay(k % Width, k \div Width), scene)]

\* C6: the buffer has width * height entries; an entry that was written
\* was written once and holds the colour of its pixel, and nothing is
\* written outside the buffer; when render is done every entry was written
\* and save_image has emitted 3 bytes for each entry after the header.
C6_BufferAndFileSize ==
    /\ DOMAIN image = 0 .. Width * Height - 1
    /\ outside = 0
    /\ \A k \in DOMAIN image :
           /\ writes[k] <= 1
           /\ writes[k] = 1 => image[k] = Rendered(spheres)[k]
    /\ pc = "done" =>
           /\ \A k \in DOMAIN image : writes[k] = 1
           /\ file # None
           /\ file[1].header = <<"P6", Width, Height, 255>>
           /\ Len(file[1].bytes) = 3 * Width * Height

\* render is done with three different colours in the buffer.
C6_Witness ==
    /\ pc = "done"
    /\ Cardinality({image[k] : k \in DOMAIN image}) >= 3
    /\ Len(file[1].bytes) = 3 * Width * Height

C8_Progress ==
    /\ visited = [k \in 1 .. i |-> k - 1]
    /\ i <= Len(spheres)
    /\ Returned => i = Len(spheres)
    /\ ntrace <= 2
    /\ pc = "ret" => ntrace = IF intersection = None THEN 1 ELSE 2
    /\ file # None => pc = "done"
    /\ pc = "done" => file # None /\ \A k \in DOMAIN image : writes[k] = 1

\* C8: render terminates; the loop of trace visits each sphere once, in
\* order; ray_cast calls trace at most twice for a pixel; and save_image
\* gets the buffer only when every pixel has been stored.
C8_Terminates == <>(pc = "done") /\ []C8_Progress

\* render is done, and the last pixel took two calls of trace.
C8_Witness ==
    /\ pc = "done"
    /\ ntrace = 2
    /\ Len(spheres) = 2
    /\ \A k \in DOMAIN image : writes[k] = 1

====
